---- MODULE Spec2Model ----
\* Model of the rsconnect helper scripts (diagnose_py.py, pre_deploy_check_py.py,
\* regenerate_manifest_py.py) and of the shared library lib/py_utils.py.
\*
\* Strings the code splits or compares are sequences of one-character strings.
\* An optional value (Python's None or a value) is the empty set or a singleton.
EXTENDS Integers, Sequences, FiniteSets, TLC

VARIABLES
    pc,            \* position of the running script
    args,          \* command-line arguments as argparse / sys.argv sees them
    tools,         \* commands shutil.which finds on PATH
    pvfile,        \* .python-version: {} when absent, {content} otherwise
    interp,        \* sys.version_info of the running interpreter, major.minor.micro
    pyproject,     \* pyproject.toml
    requirements,  \* requirements.txt
    manifest,      \* manifest.json
    gitignore,     \* what check_skill_dir_gitignored finds
    detected,      \* what detect_content_type finds in the project
    issues,        \* the issues list of the running script
    warnings,      \* the warnings list of the running script
    passed,        \* pre_deploy_check_py's passed flag
    exitcode,      \* {} while running, {code} once the process has exited
    crashed,       \* TRUE when the process ended by an uncaught exception
    log,           \* the steps the script has performed, in order
    lastRun,       \* outcome of the last run_command call
    box,           \* the result boxes printed so far
    target_python, \* regenerate_manifest_py: the version given to uvx --python
    rsconnect_cmd, \* regenerate_manifest_py: how rsconnect is invoked
    content_type,  \* regenerate_manifest_py: the content type in use
    pkg_count,     \* the package count printed: {} until printed, then {n}
    input,         \* argument of the library function under test
    ret,           \* values the library function under test returned, in order
    hist           \* manifest.json after each return in ret

vars == <<pc, args, tools, pvfile, interp, pyproject, requirements, manifest,
          gitignore, detected, issues, warnings, passed, exitcode, crashed,
          log, lastRun, box, target_python, rsconnect_cmd, content_type,
          pkg_count, input, ret, hist>>

locals == <<target_python, rsconnect_cmd, content_type>>

env == <<args, tools, pvfile, interp, gitignore, detected>>

\* ---------------------------------------------------------------------------
\* Bounds
\* ---------------------------------------------------------------------------

\* Longest version string given to is_exact_python_version on its own.
MaxLen == 6

\* Applications of patch_allow_uv to one file.
MaxApply == 2

\* Most lines of a requirements.txt given to get_requirements_packages on
\* its own.
MaxLines == 2

\* Longest line of such a requirements.txt.
MaxLineLen == 2

\* ---------------------------------------------------------------------------
\* Strings
\* ---------------------------------------------------------------------------

Digits == {"0", "1", "2", "3", "4", "5", "6", "7", "8", "9"}

Alphabet == {"3", "1", ".", "x"}

StringsUpTo(n) == UNION {[1..k -> Alphabet] : k \in 0..n}

None == {}

Some(x) == {x}

Val(o) == CHOOSE x \in o : TRUE

\* str.split("."): the parts between the dots; one part more than dots.
RECURSIVE split(_)
split(s) ==
    IF \A i \in 1..Len(s) : s[i] # "."
    THEN <<s>>
    ELSE LET d == CHOOSE i \in 1..Len(s) :
                      s[i] = "." /\ \A j \in 1..(i - 1) : s[j] # "."
         IN <<SubSeq(s, 1, d - 1)>> \o split(SubSeq(s, d + 1, Len(s)))

\* ".".join(parts)
RECURSIVE join(_)
join(parts) ==
    IF Len(parts) = 0 THEN <<>>
    ELSE IF Len(parts) = 1 THEN parts[1]
    ELSE parts[1] \o <<".">> \o join(Tail(parts))

\* parts[:2]
first_two(parts) == SubSeq(parts, 1, IF Len(parts) < 2 THEN Len(parts) ELSE 2)

\* ".".join(v.split(".")[:2])
major_minor(v) == join(first_two(split(v)))

\* str.isdigit(): at least one character and every character a digit.
isdigit(p) == Len(p) > 0 /\ \A i \in 1..Len(p) : p[i] \in Digits

\* Faulty variant of isdigit: all(c in digits for c in p), true of the empty part.
isdigit_vacuous(p) == \A i \in 1..Len(p) : p[i] \in Digits

\* Faulty variant of is_exact_python_version: the length test off by one.
is_exact_two_parts(version) ==
    LET parts == split(version)
    IN Len(parts) >= 2 /\ \A i \in 1..(IF Len(parts) < 3 THEN Len(parts) ELSE 3) : isdigit(parts[i])

is_exact_python_version(version) ==
    LET parts == split(version)
    IN Len(parts) >= 3 /\ \A i \in 1..3 : isdigit(parts[i])

v3 == <<"3">>
v3_12 == <<"3", ".", "1", "2">>
v3_13 == <<"3", ".", "1", "3">>
v3_12_1 == <<"3", ".", "1", "2", ".", "1">>
v3_12_7 == <<"3", ".", "1", "2", ".", "7">>
v3_13_1 == <<"3", ".", "1", "3", ".", "1">>

\* Contents of .python-version after strip(): empty, short and exact versions.
PvContents == {<<>>, v3, v3_12, v3_13, v3_12_1, v3_12_7, v3_13_1}

\* Values of python.version in a manifest.
ManifestVersions == {<<>>, v3_12, v3_12_1, v3_12_7, v3_13_1}

Interpreters == {v3_12_1}

\* ---------------------------------------------------------------------------
\* manifest.json
\* ---------------------------------------------------------------------------
\* A JSON document is described by the keys the scripts read or write and one
\* further key at each level: metadata beside python, version beside
\* package_manager, name beside allow_uv. A value that is not a JSON object where
\* the code expects one is "null", "string" or "array"; the whole document may
\* be an array or the JSON value null, which json.load returns as None.

NoDoc == [top |-> "none", metadata |-> "absent", python |-> "absent",
          version |-> None, package_manager |-> "absent", name |-> "absent",
          allow_uv |-> "absent"]

\* The JSON documents a manifest.json can hold, in normal form: a key of an
\* object that is not there is "absent" (None for version).
Docs ==
    {d \in [top : {"object", "array", "null"},
            metadata : {"absent", "present"},
            python : {"absent", "null", "string", "object"},
            version : {None} \cup {Some(v) : v \in ManifestVersions},
            package_manager : {"absent", "null", "object"},
            name : {"absent", "pip"},
            allow_uv : {"absent", "true", "false"}] :
        /\ (d.top # "object") => (d.metadata = "absent" /\ d.python = "absent")
        /\ (d.python # "object") => (d.version = None /\ d.package_manager = "absent")
        /\ (d.package_manager # "object") => (d.name = "absent" /\ d.allow_uv = "absent")}

\* How the bytes of a JSON file are laid out: as rsconnect (or an editor) wrote
\* them, or as json.dump(indent=2) followed by a newline writes them.
Layouts == {"original", "indent2"}

MissingFile == [kind |-> "missing", doc |-> NoDoc, layout |-> "none", writable |-> TRUE]

InvalidFiles == {[kind |-> "invalid", doc |-> NoDoc, layout |-> "none", writable |-> w] :
                    w \in BOOLEAN}

JsonFiles == [kind : {"json"}, doc : Docs, layout : Layouts, writable : BOOLEAN]

ManifestFiles == {MissingFile} \cup InvalidFiles \cup JsonFiles

\* os.path.exists("manifest.json")
exists(file) == file.kind # "missing"

\* json.load of the open file: the document, or FileNotFoundError / JSONDecodeError.
json_load(file) ==
    IF file.kind = "json" THEN [error |-> FALSE, doc |-> file.doc]
    ELSE [error |-> TRUE, doc |-> NoDoc]

\* Faulty variant of the write: the file opened in append mode, so the new document
\* follows the old bytes and the file no longer parses.
json_dump_append(file, doc) ==
    [file EXCEPT !.kind = "invalid", !.doc = NoDoc, !.layout = "none"]

\* open(path, "w"); json.dump(manifest, f, indent=2); f.write("\n")
json_dump(file, doc) ==
    [file EXCEPT !.kind = "json", !.doc = doc, !.layout = "indent2"]

\* Faulty variant of the patch: package_manager is replaced by a
\* fresh {"allow_uv": true}, losing its other entries.
set_allow_uv_fresh(doc) ==
    [doc EXCEPT !.package_manager = "object", !.name = "absent", !.allow_uv = "true"]

\* python_section.setdefault-like code of patch_allow_uv: package_manager is
\* created when absent and allow_uv set in it; its other entries stay.
set_allow_uv(doc) ==
    [doc EXCEPT !.package_manager = "object", !.allow_uv = "true"]

\* patch_allow_uv(manifest_path): what it returns ("True", "False", or "raise"
\* for an exception it does not catch) and the file it leaves.
patch_allow_uv(file) ==
    LET loaded == json_load(file)
        doc == loaded.doc
        same(r) == [ret |-> r, file |-> file, wrote |-> FALSE]
    IN IF loaded.error THEN same("False")
       ELSE IF doc.top # "object" THEN same("raise")
       ELSE IF doc.python \in {"absent", "null"} THEN same("True")
       ELSE IF doc.python # "object" THEN same("raise")
       ELSE IF doc.package_manager = "null" THEN same("raise")
       ELSE IF ~file.writable THEN same("False")
       ELSE [ret |-> "True", file |-> json_dump(file, set_allow_uv(doc)), wrote |-> TRUE]

\* parse_manifest: the parsed document (whatever JSON value it is) or None; the
\* JSON document null is parsed to None as well.
parse_manifest(file) ==
    LET loaded == json_load(file)
    IN IF loaded.error \/ loaded.doc.top = "null" THEN None ELSE Some(loaded.doc)

\* parse_manifest_python_version: python.version, None, or an AttributeError
\* when the document or its python entry has no .get.
parse_manifest_python_version(file) ==
    LET m == parse_manifest(file)
    IN IF m = None THEN [raise |-> FALSE, value |-> None]
       ELSE IF Val(m).top # "object" THEN [raise |-> TRUE, value |-> None]
       ELSE IF Val(m).python \in {"null", "string"} THEN [raise |-> TRUE, value |-> None]
       ELSE [raise |-> FALSE, value |-> Val(m).version]

\* get_manifest_allow_uv: "True" / "False" as stored, "None" when the field is
\* missing, "raise" when a level that should be an object is not.
get_manifest_allow_uv(file) ==
    LET m == parse_manifest(file)
    IN IF m = None THEN "None"
       ELSE IF Val(m).top # "object" THEN "raise"
       ELSE IF Val(m).python \in {"null", "string"} THEN "raise"
       ELSE IF Val(m).package_manager = "null" THEN "raise"
       ELSE IF Val(m).allow_uv = "true" THEN "True"
       ELSE IF Val(m).allow_uv = "false" THEN "False"
       ELSE "None"

\* ---------------------------------------------------------------------------
\* Values of the variables a specification does not use
\* ---------------------------------------------------------------------------

NoArgs == [kind |-> "ok", help |-> FALSE, type |-> None,
           no_uv_export |-> FALSE, no_allow_uv |-> FALSE]

NoRun == [ran |-> FALSE, returncode |-> 0, raised |-> FALSE]

NoGitignore == [is_ignored |-> TRUE, agent_dir |-> FALSE]

NoPyproject == [exists |-> FALSE, requires_python |-> FALSE, generated |-> FALSE]

NoRequirements == [exists |-> FALSE, newer |-> FALSE, exported |-> FALSE, lines |-> <<>>]

EnvIdle ==
    /\ args = NoArgs
    /\ tools = {}
    /\ pvfile = None
    /\ interp = v3_12_1
    /\ gitignore = NoGitignore
    /\ detected = None
    /\ pyproject = NoPyproject
    /\ requirements = NoRequirements

RunIdle ==
    /\ issues = <<>>
    /\ warnings = <<>>
    /\ passed = TRUE
    /\ exitcode = None
    /\ crashed = FALSE
    /\ lastRun = NoRun
    /\ box = <<>>
    /\ target_python = None
    /\ rsconnect_cmd = "none"
    /\ content_type = None
    /\ pkg_count = None

LibIdle ==
    /\ input = <<>>
    /\ ret = <<>>
    /\ hist = <<>>

\* ---------------------------------------------------------------------------
\* is_exact_python_version called on its own
\* ---------------------------------------------------------------------------

InitExact ==
    /\ EnvIdle
    /\ RunIdle
    /\ manifest = MissingFile
    /\ log = <<>>
    /\ input \in StringsUpTo(MaxLen)
    /\ ret = <<>>
    /\ hist = <<>>
    /\ pc = "exact_call"

ExactCall ==
    /\ pc = "exact_call"
    /\ ret' = <<is_exact_python_version(input)>>
    /\ pc' = "exact_done"
    /\ UNCHANGED <<env, locals, pkg_count, pyproject, requirements, manifest, issues, warnings, passed,
                   exitcode, crashed, log, lastRun, box, input, hist>>

NextExact == ExactCall

SpecExact == InitExact /\ [][NextExact]_vars

\* ---------------------------------------------------------------------------
\* patch_allow_uv applied repeatedly to one manifest.json
\* ---------------------------------------------------------------------------

InitPatch ==
    /\ EnvIdle
    /\ RunIdle
    /\ manifest \in ManifestFiles
    /\ input = manifest
    /\ log = <<>>
    /\ ret = <<>>
    /\ hist = <<>>
    /\ pc = "patch_call"

\* One call of patch_allow_uv(): log notes whether the call wrote the file.
PatchCall ==
    /\ pc = "patch_call"
    /\ Len(ret) < MaxApply
    /\ LET r == patch_allow_uv(manifest)
       IN /\ manifest' = r.file
          /\ ret' = Append(ret, r.ret)
          /\ hist' = Append(hist, r.file)
          /\ log' = Append(log, r.wrote)
    /\ pc' = IF Len(ret) + 1 = MaxApply THEN "patch_done" ELSE "patch_call"
    /\ UNCHANGED <<env, locals, pkg_count, pyproject, requirements, issues, warnings, passed,
                   exitcode, crashed, lastRun, box, input>>

NextPatch == PatchCall

SpecPatch == InitPatch /\ [][NextPatch]_vars

\* ---------------------------------------------------------------------------
\* parse_manifest and parse_manifest_python_version called on one manifest.json
\* ---------------------------------------------------------------------------

\* The Python type of what parse_manifest returned.
python_type(m) ==
    IF m = None THEN "None"
    ELSE IF Val(m).top = "object" THEN "dict"
    ELSE "list"

InitParse ==
    /\ EnvIdle
    /\ RunIdle
    /\ manifest \in ManifestFiles
    /\ input = manifest
    /\ log = <<>>
    /\ ret = <<>>
    /\ hist = <<>>
    /\ pc = "parse_call"

\* parse_manifest(): ret notes the type of the value returned.
ParseCall ==
    /\ pc = "parse_call"
    /\ ret' = Append(ret, python_type(parse_manifest(manifest)))
    /\ pc' = "version_call"
    /\ UNCHANGED <<env, locals, pkg_count, pyproject, requirements, manifest, issues, warnings,
                   passed, exitcode, crashed, log, lastRun, box, input, hist>>

\* parse_manifest_python_version(): ret notes "raise", "None" or "str".
ParseVersionCall ==
    /\ pc = "version_call"
    /\ LET v == parse_manifest_python_version(manifest)
       IN ret' = Append(ret, IF v.raise THEN "raise"
                             ELSE IF v.value = None THEN "None" ELSE "str")
    /\ pc' = "parse_done"
    /\ UNCHANGED <<env, locals, pkg_count, pyproject, requirements, manifest, issues, warnings,
                   passed, exitcode, crashed, log, lastRun, box, input, hist>>

NextParse ==
    \/ ParseCall
    \/ ParseVersionCall

SpecParse == InitParse /\ [][NextParse]_vars

\* ---------------------------------------------------------------------------
\* Library functions the scripts share
\* ---------------------------------------------------------------------------

\* check_command(cmd): shutil.which finds cmd on PATH.
check_command(cmd) == cmd \in tools

\* get_python_version_file(): the stripped content of .python-version, or None
\* when the file does not exist or is empty.
get_python_version_file ==
    IF pvfile = None THEN None
    ELSE IF Val(pvfile) = <<>> THEN None
    ELSE pvfile

\* get_local_python_version(): .python-version as written, else the running
\* interpreter's major.minor.micro.
get_local_python_version ==
    IF get_python_version_file # None THEN Val(get_python_version_file) ELSE interp

\* Faulty variant of run_command: subprocess.run(check=True), which raises
\* CalledProcessError on a non-zero exit.
run_command_check(returncode) ==
    [ran |-> TRUE, returncode |-> returncode, raised |-> returncode # 0]

\* run_command(cmd): subprocess.run(cmd, check=False); the completed result
\* carries the command's exit status whatever it is.
run_command(returncode) ==
    [ran |-> TRUE, returncode |-> returncode, raised |-> FALSE]

\* Truthiness of an optional string: neither None nor "".
truthy(o) == o # None /\ Val(o) # <<>>

\* The process ends: sys.exit(code).
Exit(code) ==
    /\ exitcode' = Some(code)
    /\ crashed' = FALSE
    /\ pc' = "done"

\* The process ends by an exception nobody catches: traceback, status 1.
Crash ==
    /\ exitcode' = Some(1)
    /\ crashed' = TRUE
    /\ pc' = "done"

\* Number of entries of the list equal to x.
RECURSIVE count(_, _)
count(list, x) ==
    IF list = <<>> THEN 0
    ELSE (IF Head(list) = x THEN 1 ELSE 0) + count(Tail(list), x)

\* Characters of a requirements.txt line: a blank, the comment sign, the
\* option sign, and a letter.
LineAlphabet == {" ", "#", "-", "a"}

\* Characters str.strip() removes.
Whitespace == {" "}

RECURSIVE lstrip(_)
lstrip(s) == IF s # <<>> /\ Head(s) \in Whitespace THEN lstrip(Tail(s)) ELSE s

RECURSIVE rstrip(_)
rstrip(s) ==
    IF s # <<>> /\ s[Len(s)] \in Whitespace THEN rstrip(SubSeq(s, 1, Len(s) - 1)) ELSE s

\* str.strip().
strip(s) == rstrip(lstrip(s))

\* str.startswith(c) for a one-character prefix.
startswith(s, c) == s # <<>> /\ Head(s) = c

\* Faulty variant of the filter: option lines are kept.
skipped_comments_only(line) == line = <<>> \/ startswith(line, "#")

\* Line 197: the stripped lines the loop passes over.
skipped(line) == line = <<>> \/ startswith(line, "#") \/ startswith(line, "-")

\* Lines 195-199: the loop over the lines of the file.
RECURSIVE collect_packages(_)
collect_packages(lines) ==
    IF lines = <<>> THEN <<>>
    ELSE LET line == strip(Head(lines))
         IN (IF skipped(line) THEN <<>> ELSE <<line>>) \o collect_packages(Tail(lines))

\* get_requirements_packages(req_path): FileNotFoundError leaves the list
\* empty.
get_requirements_packages(file) ==
    IF file.exists THEN collect_packages(file.lines) ELSE <<>>

\* Manifests the scripts are run on: every shape of document, each with
\* metadata, laid out as rsconnect wrote it.
ScriptManifests ==
    {MissingFile}
    \cup {f \in InvalidFiles : f.writable}
    \cup {f \in JsonFiles :
            /\ f.writable
            /\ f.layout = "original"
            /\ f.doc.top = "object" => f.doc.metadata = "present"
            /\ f.doc.package_manager = "object" => f.doc.name = "pip"}

PvFiles == {None} \cup {Some(v) : v \in PvContents}

Commands == {"uv", "rsconnect", "uvx"}

\* check_skill_dir_gitignored(): (is_ignored, agent_dir is not None).
GitignoreResults ==
    {[is_ignored |-> TRUE, agent_dir |-> FALSE],
     [is_ignored |-> TRUE, agent_dir |-> TRUE],
     [is_ignored |-> FALSE, agent_dir |-> TRUE]}

\* ---------------------------------------------------------------------------
\* diagnose_py.py
\* ---------------------------------------------------------------------------

DiagnoseArgs == {[NoArgs EXCEPT !.help = h] : h \in BOOLEAN}

InitDiagnose ==
    /\ args \in DiagnoseArgs
    /\ tools \in SUBSET Commands
    /\ pvfile \in PvFiles
    /\ interp \in Interpreters
    /\ gitignore \in GitignoreResults
    /\ detected = None
    /\ pyproject \in {NoPyproject, [NoPyproject EXCEPT !.exists = TRUE]}
    /\ requirements \in {NoRequirements, [NoRequirements EXCEPT !.exists = TRUE]}
    /\ manifest \in ScriptManifests
    /\ args.help => (tools = {} /\ pvfile = None /\ manifest = MissingFile)
    /\ RunIdle
    /\ LibIdle
    /\ log = <<>>
    /\ pc = "d_args"

DiagFrame == UNCHANGED <<env, locals, pkg_count, pyproject, requirements, manifest, warnings, passed,
                         log, lastRun, box, input, ret, hist>>

\* Lines 43-61: --help prints the usage and exits 0.
DiagArgs ==
    /\ pc = "d_args"
    /\ IF args.help
       THEN Exit(0)
       ELSE pc' = "d_python" /\ UNCHANGED <<exitcode, crashed>>
    /\ UNCHANGED issues
    /\ DiagFrame

\* Lines 68-84: a .python-version that is not exact is an issue.
DiagPython ==
    /\ pc = "d_python"
    /\ LET raw_pv == get_python_version_file
       IN issues' = IF raw_pv # None /\ ~is_exact_python_version(Val(raw_pv))
                    THEN Append(issues, "pv_not_exact")
                    ELSE issues
    /\ pc' = "d_uv"
    /\ UNCHANGED <<exitcode, crashed>>
    /\ DiagFrame

\* Lines 86-95.
DiagUv ==
    /\ pc = "d_uv"
    /\ issues' = IF check_command("uv") THEN issues ELSE Append(issues, "uv_missing")
    /\ pc' = "d_rsconnect"
    /\ UNCHANGED <<exitcode, crashed>>
    /\ DiagFrame

\* Lines 97-108: rsconnect, or uvx as fallback, else an issue.
DiagRsconnect ==
    /\ pc = "d_rsconnect"
    /\ issues' = IF check_command("rsconnect") \/ check_command("uvx")
                 THEN issues
                 ELSE Append(issues, "rsconnect_missing")
    /\ pc' = "d_gitignore"
    /\ UNCHANGED <<exitcode, crashed>>
    /\ DiagFrame

\* Lines 112-122.
DiagGitignore ==
    /\ pc = "d_gitignore"
    /\ issues' = IF gitignore.agent_dir /\ ~gitignore.is_ignored
                 THEN Append(issues, "gitignore")
                 ELSE issues
    /\ pc' = "d_files"
    /\ UNCHANGED <<exitcode, crashed>>
    /\ DiagFrame

\* Lines 126-148: the loop over the key files, requirements.txt first.
DiagKeyFiles ==
    /\ pc = "d_files"
    /\ issues' = issues
                 \o (IF requirements.exists THEN <<>> ELSE <<"requirements_missing">>)
                 \o (IF exists(manifest) THEN <<>> ELSE <<"manifest_missing">>)
    /\ pc' = "d_manifest"
    /\ UNCHANGED <<exitcode, crashed>>
    /\ DiagFrame

\* Faulty variant of the version match check: a patch difference is not an issue.
diag_version_issue_lenient(manifest_py_ver, local_version) ==
    IF ~truthy(manifest_py_ver) THEN <<>>
    ELSE IF major_minor(Val(manifest_py_ver)) # major_minor(local_version)
    THEN <<"version_mismatch">>
    ELSE <<>>

\* Lines 171-184: the version match check of the manifest section.
diag_version_issue(manifest_py_ver, local_version) ==
    IF ~truthy(manifest_py_ver) THEN <<>>
    ELSE IF major_minor(Val(manifest_py_ver)) # major_minor(local_version)
    THEN <<"version_mismatch">>
    ELSE IF Val(manifest_py_ver) # local_version
    THEN <<"patch_mismatch">>
    ELSE <<>>

\* Lines 152-186: the manifest section. The four readers are called first; any
\* of them raises when a level of the document is not an object.
DiagManifest ==
    /\ pc = "d_manifest"
    /\ IF ~exists(manifest)
       THEN /\ pc' = "d_requirements"
            /\ UNCHANGED <<issues, exitcode, crashed>>
       ELSE LET ver == parse_manifest_python_version(manifest)
                allow_uv == get_manifest_allow_uv(manifest)
            IN IF ver.raise \/ allow_uv = "raise"
               THEN Crash /\ UNCHANGED issues
               ELSE /\ issues' = issues \o diag_version_issue(ver.value, get_local_python_version)
                    /\ pc' = "d_requirements"
                    /\ UNCHANGED <<exitcode, crashed>>
    /\ DiagFrame

\* Lines 190-201: the package count is printed when requirements.txt exists.
DiagRequirements ==
    /\ pc = "d_requirements"
    /\ pc' = "d_pyproject"
    /\ pkg_count' = IF requirements.exists
                    THEN Some(Len(get_requirements_packages(requirements)))
                    ELSE pkg_count
    /\ UNCHANGED <<issues, exitcode, crashed>>
    /\ UNCHANGED <<env, locals, pyproject, requirements, manifest, warnings, passed,
                   log, lastRun, box, input, ret, hist>>

\* Lines 205-221: pyproject.toml is reported.
DiagPyproject ==
    /\ pc = "d_pyproject"
    /\ pc' = "d_summary"
    /\ UNCHANGED <<issues, exitcode, crashed>>
    /\ DiagFrame

\* Faulty variant of the summary: the exit status is 0 whatever was found.
diag_exit_always_zero(found) == 0

\* Lines 227-239: exit 0 when the issues list is empty, else 1.
diag_exit(found) == IF found = <<>> THEN 0 ELSE 1

\* Lines 225-239.
DiagSummary ==
    /\ pc = "d_summary"
    /\ Exit(diag_exit(issues))
    /\ log' = Append(log, "summary")
    /\ UNCHANGED issues
    /\ UNCHANGED <<env, locals, pkg_count, pyproject, requirements, manifest, warnings, passed,
                   lastRun, box, input, ret, hist>>

NextDiagnose ==
    \/ DiagArgs
    \/ DiagPython
    \/ DiagUv
    \/ DiagRsconnect
    \/ DiagGitignore
    \/ DiagKeyFiles
    \/ DiagManifest
    \/ DiagRequirements
    \/ DiagPyproject
    \/ DiagSummary

SpecDiagnose == InitDiagnose /\ [][NextDiagnose]_vars

\* ---------------------------------------------------------------------------
\* pre_deploy_check_py.py
\* ---------------------------------------------------------------------------

InitPreDeploy ==
    /\ args = NoArgs
    /\ tools \in SUBSET Commands
    /\ pvfile \in PvFiles
    /\ interp \in Interpreters
    /\ gitignore \in GitignoreResults
    /\ detected = None
    /\ pyproject \in {NoPyproject,
                      [NoPyproject EXCEPT !.exists = TRUE],
                      [NoPyproject EXCEPT !.exists = TRUE, !.requires_python = TRUE]}
    /\ requirements \in {NoRequirements,
                         [NoRequirements EXCEPT !.exists = TRUE],
                         [NoRequirements EXCEPT !.exists = TRUE, !.newer = TRUE]}
    /\ manifest \in ScriptManifests
    /\ RunIdle
    /\ LibIdle
    /\ log = <<>>
    /\ pc = "p_gitignore"

PreFrame == UNCHANGED <<env, locals, pkg_count, pyproject, requirements, manifest, lastRun, input, ret, hist>>

\* What one check does to the run: the line it prints, the warnings and issues
\* it appends, and whether it sets passed = False.
Outcome(report, warns, found, fail) ==
    [report |-> report, warnings |-> warns, issues |-> found, fail |-> fail]

\* A check has run: its outcome is applied and the next check is due.
PreApply(n, o, next) ==
    /\ log' = Append(log, [check |-> n, report |-> o.report])
    /\ warnings' = warnings \o o.warnings
    /\ issues' = issues \o o.issues
    /\ passed' = (passed /\ ~o.fail)
    /\ pc' = next
    /\ UNCHANGED <<exitcode, crashed, box>>

\* An exception leaves a check: nothing is appended, the process ends.
PreCrash ==
    /\ Crash
    /\ UNCHANGED <<log, warnings, issues, passed, box>>

\* Lines 41-46: the skill directory should be gitignored (a warning).
PreGitignore ==
    /\ pc = "p_gitignore"
    /\ PreApply(0,
                IF ~gitignore.is_ignored /\ gitignore.agent_dir
                THEN Outcome("not ignored", <<"gitignore">>, <<>>, FALSE)
                ELSE Outcome("", <<>>, <<>>, FALSE),
                "p_check1")
    /\ PreFrame

\* Lines 48-62.
PreCheck1 ==
    /\ pc = "p_check1"
    /\ PreApply(1,
                IF pyproject.exists
                THEN IF pyproject.requires_python
                     THEN Outcome("pyproject.toml", <<>>, <<>>, FALSE)
                     ELSE Outcome("no requires-python", <<"requires_python">>, <<>>, FALSE)
                ELSE Outcome("MISSING", <<>>, <<"pyproject_missing">>, TRUE),
                "p_check2")
    /\ PreFrame

\* Lines 64-71.
PreCheck2 ==
    /\ pc = "p_check2"
    /\ PreApply(2,
                IF exists(manifest)
                THEN Outcome("Present", <<>>, <<>>, FALSE)
                ELSE Outcome("MISSING", <<>>, <<"manifest_missing">>, TRUE),
                "p_check3")
    /\ PreFrame

\* Lines 73-81: "Present (n packages)" with n the length of the list.
PreCheck3 ==
    /\ pc = "p_check3"
    /\ PreApply(3,
                IF requirements.exists
                THEN Outcome("Present", <<>>, <<>>, FALSE)
                ELSE Outcome("MISSING", <<>>, <<"requirements_missing">>, TRUE),
                "p_check4")
    /\ pkg_count' = IF requirements.exists
                    THEN Some(Len(get_requirements_packages(requirements)))
                    ELSE pkg_count
    /\ UNCHANGED <<env, locals, pyproject, requirements, manifest, lastRun, input, ret, hist>>

\* Lines 83-90.
PreCheck4 ==
    /\ pc = "p_check4"
    /\ PreApply(4,
                IF check_command("uv")
                THEN Outcome("Found", <<>>, <<>>, FALSE)
                ELSE Outcome("NOT FOUND", <<>>, <<"uv_missing">>, TRUE),
                "p_check5")
    /\ PreFrame

\* Lines 92-103.
PreCheck5 ==
    /\ pc = "p_check5"
    /\ PreApply(5,
                IF check_command("rsconnect")
                THEN Outcome("Found", <<>>, <<>>, FALSE)
                ELSE IF check_command("uvx")
                THEN Outcome("Not installed", <<"rsconnect_fallback">>, <<>>, FALSE)
                ELSE Outcome("NOT FOUND", <<>>, <<"rsconnect_missing">>, TRUE),
                "p_check6")
    /\ PreFrame

\* Lines 105-124.
PreCheck6 ==
    /\ pc = "p_check6"
    /\ LET raw_pv == get_python_version_file
       IN PreApply(6,
                   IF raw_pv # None
                   THEN IF is_exact_python_version(Val(raw_pv))
                        THEN Outcome("exact", <<>>, <<>>, FALSE)
                        ELSE Outcome("needs exact", <<"pv_not_exact">>, <<>>, FALSE)
                   ELSE Outcome("No .python-version file", <<"no_pv_file">>, <<>>, FALSE),
                   "p_check7")
    /\ PreFrame

\* Faulty variant of check 7: a major.minor difference fails the check.
pre_check7_strict(manifest_version, local_version, manifest_exists) ==
    IF truthy(manifest_version)
    THEN IF Val(manifest_version) = local_version
         THEN Outcome("exact match", <<>>, <<>>, FALSE)
         ELSE IF major_minor(Val(manifest_version)) = major_minor(local_version)
         THEN Outcome("manifest differs in patch", <<>>, <<>>, FALSE)
         ELSE Outcome("Local vs manifest", <<>>, <<"version_mismatch">>, TRUE)
    ELSE IF manifest_exists
    THEN Outcome("No Python version in manifest", <<>>, <<>>, FALSE)
    ELSE Outcome("Skipped", <<>>, <<>>, FALSE)

\* Lines 131-151: check 7 once both versions are read. The local version is
\* never empty, so the branch "couldn't detect local" is not taken.
pre_check7(manifest_version, local_version, manifest_exists) ==
    IF truthy(manifest_version)
    THEN IF Val(manifest_version) = local_version
         THEN Outcome("exact match", <<>>, <<>>, FALSE)
         ELSE IF major_minor(Val(manifest_version)) = major_minor(local_version)
         THEN Outcome("manifest differs in patch", <<>>, <<>>, FALSE)
         ELSE Outcome("Local vs manifest", <<"version_mismatch">>, <<>>, FALSE)
    ELSE IF manifest_exists
    THEN Outcome("No Python version in manifest", <<>>, <<>>, FALSE)
    ELSE Outcome("Skipped", <<>>, <<>>, FALSE)

\* Lines 126-151: parse_manifest_python_version raises when the document or
\* its python entry is not an object.
PreCheck7 ==
    /\ pc = "p_check7"
    /\ LET ver == parse_manifest_python_version(manifest)
       IN IF ver.raise
          THEN PreCrash
          ELSE PreApply(7,
                        pre_check7(ver.value, get_local_python_version, exists(manifest)),
                        "p_check8")
    /\ PreFrame

\* Lines 153-167: the manifest should not be older than requirements.txt.
PreCheck8 ==
    /\ pc = "p_check8"
    /\ PreApply(8,
                IF exists(manifest) /\ requirements.exists
                THEN IF ~requirements.newer
                     THEN Outcome("up to date", <<>>, <<>>, FALSE)
                     ELSE Outcome("may be stale", <<"stale">>, <<>>, FALSE)
                ELSE Outcome("Skipped", <<>>, <<>>, FALSE),
                "p_check9")
    /\ PreFrame

\* Lines 172-184: check 9 once allow_uv is read.
pre_check9(allow_uv, manifest_exists) ==
    IF allow_uv = "True" THEN Outcome("Enabled", <<>>, <<>>, FALSE)
    ELSE IF allow_uv = "False"
    THEN Outcome("Explicitly disabled", <<"allow_uv_false">>, <<>>, FALSE)
    ELSE IF manifest_exists
    THEN Outcome("Not set", <<"allow_uv_unset">>, <<>>, FALSE)
    ELSE Outcome("Skipped (no manifest)", <<>>, <<>>, FALSE)

\* Lines 169-184: get_manifest_allow_uv raises when package_manager is not an
\* object.
PreCheck9 ==
    /\ pc = "p_check9"
    /\ LET allow_uv == get_manifest_allow_uv(manifest)
       IN IF allow_uv = "raise"
          THEN PreCrash
          ELSE PreApply(9, pre_check9(allow_uv, exists(manifest)), "p_summary")
    /\ PreFrame

\* box_result(success): the message in the box.
box_result(success) == IF success THEN "READY TO DEPLOY" ELSE "ISSUES FOUND"

\* Lines 186-203: the result box, then exit 0 when passed, else 1.
PreSummary ==
    /\ pc = "p_summary"
    /\ box' = Append(box, box_result(passed))
    /\ Exit(IF passed THEN 0 ELSE 1)
    /\ UNCHANGED <<log, warnings, issues, passed>>
    /\ PreFrame

NextPreDeploy ==
    \/ PreGitignore
    \/ PreCheck1
    \/ PreCheck2
    \/ PreCheck3
    \/ PreCheck4
    \/ PreCheck5
    \/ PreCheck6
    \/ PreCheck7
    \/ PreCheck8
    \/ PreCheck9
    \/ PreSummary

SpecPreDeploy == InitPreDeploy /\ [][NextPreDeploy]_vars

\* ---------------------------------------------------------------------------
\* get_requirements_packages: called on one requirements.txt, and as
\* diagnose_py.py and pre_deploy_check_py.py call it
\* ---------------------------------------------------------------------------

LinesUpTo(n) == UNION {[1..k -> LineAlphabet] : k \in 0..n}

\* requirements.txt with the given lines.
RequirementsFile(lines) == [NoRequirements EXCEPT !.exists = TRUE, !.lines = lines]

\* The files the function is called on: none, or up to MaxLines lines of up
\* to MaxLineLen characters.
RequirementsFiles ==
    {NoRequirements}
    \cup {RequirementsFile(ls) :
            ls \in UNION {[1..k -> LinesUpTo(MaxLineLen)] : k \in 0..MaxLines}}

\* The files the two scripts are run on: none, an empty one, and one with a
\* comment, two packages, a blank line and an option line.
ScriptRequirements ==
    {NoRequirements,
     RequirementsFile(<<>>),
     RequirementsFile(<< <<"#", " ", "a">>,
                         <<"a">>,
                         <<>>,
                         <<"-", "a">>,
                         <<" ", "a", "-", "a", " ">> >>)}

InitPackages ==
    /\ args = NoArgs
    /\ tools = Commands
    /\ pvfile = None
    /\ interp \in Interpreters
    /\ gitignore = NoGitignore
    /\ detected = None
    /\ pyproject = [NoPyproject EXCEPT !.exists = TRUE]
    /\ manifest = MissingFile
    /\ RunIdle
    /\ LibIdle
    /\ log = <<>>
    /\ \/ pc = "packages_call" /\ requirements \in RequirementsFiles
       \/ pc \in {"d_args", "p_gitignore"} /\ requirements \in ScriptRequirements

\* get_requirements_packages(): ret holds the list returned.
RequirementsCall ==
    /\ pc = "packages_call"
    /\ ret' = <<get_requirements_packages(requirements)>>
    /\ pc' = "packages_done"
    /\ UNCHANGED <<env, locals, pkg_count, pyproject, requirements, manifest, issues,
                   warnings, passed, exitcode, crashed, log, lastRun, box, input, hist>>

NextPackages ==
    \/ RequirementsCall
    \/ NextDiagnose
    \/ NextPreDeploy

SpecPackages == InitPackages /\ [][NextPackages]_vars


\* ---------------------------------------------------------------------------
\* regenerate_manifest_py.py
\* ---------------------------------------------------------------------------

\* What argparse makes of the command line: accepted options, --help (usage,
\* exit 0) or a rejected command line such as --type bogus (exit 2).
RegenArgs ==
    {[kind |-> "ok", help |-> FALSE, type |-> t, no_uv_export |-> e, no_allow_uv |-> a] :
        t \in {None, Some("fastapi"), Some("flask")}, e \in BOOLEAN, a \in BOOLEAN}
    \cup {[NoArgs EXCEPT !.kind = "help", !.help = TRUE],
          [NoArgs EXCEPT !.kind = "invalid"]}

\* What detect_content_type() finds in the project directory.
Detections == {None, Some("fastapi"), Some("flask")}

\* Exit statuses of the commands run by run_command.
ReturnCodes == {0, 1}

\* The manifest.json that was there before the run.
OldManifest ==
    [kind |-> "json",
     doc |-> [top |-> "object", metadata |-> "present", python |-> "object",
              version |-> Some(v3_12_7), package_manager |-> "object",
              name |-> "pip", allow_uv |-> "absent"],
     layout |-> "original", writable |-> TRUE]

\* What `rsconnect write-manifest` may leave as manifest.json when it exits 0:
\* the tool is external, so any shape of file, writable or not.
WrittenManifests ==
    {f \in InvalidFiles \cup JsonFiles :
        /\ f.kind = "json" =>
              /\ f.layout = "original"
              /\ f.doc.top = "object" => f.doc.metadata = "present"
              /\ f.doc.package_manager = "object" => f.doc.name = "pip"
              /\ f.doc.version \in {None, Some(v3_12_1)}}

InitRegenerate ==
    /\ args \in RegenArgs
    /\ tools \in SUBSET Commands
    /\ pvfile \in PvFiles
    /\ interp \in Interpreters
    /\ gitignore = NoGitignore
    /\ detected \in Detections
    /\ pyproject \in {NoPyproject, [NoPyproject EXCEPT !.exists = TRUE]}
    /\ requirements \in {NoRequirements, [NoRequirements EXCEPT !.exists = TRUE]}
    /\ manifest \in {MissingFile, OldManifest}
    /\ args.kind # "ok" =>
          (pvfile = None /\ detected = None /\ ~pyproject.exists /\ ~requirements.exists)
    /\ RunIdle
    /\ LibIdle
    /\ log = <<>>
    /\ pc = "r_args"

RegenEnv == UNCHANGED <<env, pkg_count, issues, warnings, passed, input, ret, hist>>

\* A step of the script and how it ended.
Step(name, ok) == [step |-> name, ok |-> ok]

\* Line 284: parser.parse_args().
RegenParseArgs ==
    /\ pc = "r_args"
    /\ IF args.kind = "help" THEN Exit(0)
       ELSE IF args.kind = "invalid" THEN Exit(2)
       ELSE pc' = "r_prereq" /\ UNCHANGED <<exitcode, crashed>>
    /\ UNCHANGED <<locals, pyproject, requirements, manifest, log, lastRun, box>>
    /\ RegenEnv

\* Lines 288-292: rsconnect or uvx must be on PATH.
RegenPrereq ==
    /\ pc = "r_prereq"
    /\ IF ~check_command("rsconnect") /\ ~check_command("uvx")
       THEN Exit(1) /\ log' = Append(log, Step("prerequisites", FALSE))
       ELSE /\ pc' = "r_target"
            /\ log' = Append(log, Step("prerequisites", TRUE))
            /\ UNCHANGED <<exitcode, crashed>>
    /\ UNCHANGED <<locals, pyproject, requirements, manifest, lastRun, box>>
    /\ RegenEnv

\* Faulty variant of the target version: a .python-version that is not exact
\* is kept as written when major.minor agree.
regen_target_as_written(raw_pv, local_version, interp_version) ==
    IF raw_pv # None /\ ~is_exact_python_version(Val(raw_pv))
          /\ major_minor(Val(raw_pv)) # major_minor(interp_version)
    THEN [conflict |-> TRUE, target |-> local_version]
    ELSE [conflict |-> FALSE, target |-> local_version]

\* Lines 295-314: the target version. A .python-version that is not exact is
\* replaced by the interpreter's version when major.minor agree, and is a
\* conflict otherwise.
regen_target(raw_pv, local_version, interp_version) ==
    IF raw_pv # None /\ ~is_exact_python_version(Val(raw_pv))
    THEN IF major_minor(Val(raw_pv)) = major_minor(interp_version)
         THEN [conflict |-> FALSE, target |-> interp_version]
         ELSE [conflict |-> TRUE, target |-> local_version]
    ELSE [conflict |-> FALSE, target |-> local_version]

\* Lines 294-314.
RegenTarget ==
    /\ pc = "r_target"
    /\ LET t == regen_target(get_python_version_file, get_local_python_version, interp)
       IN /\ target_python' = Some(t.target)
          /\ IF t.conflict
             THEN Exit(1) /\ log' = Append(log, Step("target_python", FALSE))
             ELSE /\ pc' = "r_command"
                  /\ log' = Append(log, Step("target_python", TRUE))
                  /\ UNCHANGED <<exitcode, crashed>>
    /\ UNCHANGED <<rsconnect_cmd, content_type, pyproject, requirements, manifest,
                   lastRun, box>>
    /\ RegenEnv

\* Faulty variant of the command: the installed rsconnect is preferred.
regen_command_prefers_installed ==
    IF check_command("rsconnect") THEN "rsconnect"
    ELSE IF check_command("uvx") THEN "uvx"
    ELSE "none"

\* Lines 321-332: uvx --python <target> --from rsconnect-python rsconnect when
\* uvx is there, the installed rsconnect otherwise.
regen_command ==
    IF check_command("uvx") THEN "uvx"
    ELSE IF check_command("rsconnect") THEN "rsconnect"
    ELSE "none"

\* Lines 317-332.
RegenCommand ==
    /\ pc = "r_command"
    /\ rsconnect_cmd' = regen_command
    /\ IF regen_command = "none"
       THEN Exit(1) /\ log' = Append(log, Step("command", FALSE))
       ELSE /\ pc' = "r_content_type"
            /\ log' = Append(log, Step("command", TRUE))
            /\ UNCHANGED <<exitcode, crashed>>
    /\ UNCHANGED <<target_python, content_type, pyproject, requirements, manifest,
                   lastRun, box>>
    /\ RegenEnv

\* Lines 334-346: --type, or what detect_content_type() finds.
RegenContentType ==
    /\ pc = "r_content_type"
    /\ LET found == IF args.type # None THEN args.type ELSE detected
       IN /\ content_type' = found
          /\ IF found = None
             THEN Exit(1) /\ log' = Append(log, Step("content_type", FALSE))
             ELSE /\ pc' = "r_export"
                  /\ log' = Append(log, Step("content_type", TRUE))
                  /\ UNCHANGED <<exitcode, crashed>>
    /\ UNCHANGED <<target_python, rsconnect_cmd, pyproject, requirements, manifest,
                   lastRun, box>>
    /\ RegenEnv

\* Faulty variant: a failed command does not stop the script.
stops_never(result) == FALSE

\* Lines 372-377 and 394-404: a command that did not return 0 ends the script.
stops(result) == result.returncode # 0

\* Faulty variant of --no-uv-export: the export is never skipped.
skip_uv_export_never(a) == FALSE

\* Line 349: --no-uv-export skips the export.
skip_uv_export(a) == a.no_uv_export

\* Faulty variant of the pyproject.toml test: the file is always generated.
needs_pyproject_always(file) == TRUE

\* Line 357: pyproject.toml is generated when os.path.exists says it is not
\* there.
needs_pyproject(file) == ~file.exists

\* Lines 348-382: requirements.txt. With uv export: uv must be on PATH, a
\* missing pyproject.toml is generated (the write may fail), then uv export
\* runs. With --no-uv-export: requirements.txt must exist.
RegenExport ==
    /\ pc = "r_export"
    /\ IF skip_uv_export(args)
       THEN /\ UNCHANGED <<pyproject, requirements, lastRun>>
            /\ IF requirements.exists
               THEN /\ pc' = "r_write_manifest"
                    /\ log' = Append(log, Step("requirements_exist", TRUE))
                    /\ UNCHANGED <<exitcode, crashed>>
               ELSE Exit(1) /\ log' = Append(log, Step("requirements_exist", FALSE))
       ELSE IF ~check_command("uv")
       THEN /\ Exit(1)
            /\ log' = Append(log, Step("uv_on_path", FALSE))
            /\ UNCHANGED <<pyproject, requirements, lastRun>>
       ELSE \E written \in BOOLEAN, returncode \in ReturnCodes :
              LET generate == needs_pyproject(pyproject)
                  steps == IF generate THEN <<Step("pyproject", written)>> ELSE <<>>
                  result == run_command(returncode)
              IN IF generate /\ ~written
                 THEN /\ Exit(1)
                      /\ log' = log \o steps
                      /\ returncode = 0
                      /\ UNCHANGED <<pyproject, requirements, lastRun>>
                 ELSE /\ written
                      /\ pyproject' = IF generate
                                      THEN [pyproject EXCEPT !.exists = TRUE, !.generated = TRUE]
                                      ELSE pyproject
                      /\ lastRun' = result
                      /\ IF result.raised
                         THEN /\ Crash
                              /\ log' = log \o steps \o <<Step("uv_export", FALSE)>>
                              /\ UNCHANGED requirements
                         ELSE IF stops(result)
                         THEN /\ Exit(1)
                              /\ log' = log \o steps \o <<Step("uv_export", FALSE)>>
                              /\ UNCHANGED requirements
                         ELSE /\ pc' = "r_write_manifest"
                              /\ log' = log \o steps \o <<Step("uv_export", TRUE)>>
                              /\ requirements' = [requirements EXCEPT !.exists = TRUE,
                                                                      !.exported = TRUE]
                              /\ UNCHANGED <<exitcode, crashed>>
    /\ UNCHANGED <<locals, manifest, box>>
    /\ RegenEnv

\* Lines 384-404: rsconnect write-manifest <type> . --overwrite. When it
\* returns 0 the tool has left some manifest.json, or none; when it fails the
\* file is as it was and the script prints the ISSUES FOUND box and exits 1.
RegenWriteManifest ==
    /\ pc = "r_write_manifest"
    /\ \E returncode \in ReturnCodes, file \in WrittenManifests \cup {manifest} :
          LET result == run_command(returncode)
          IN /\ lastRun' = result
             /\ IF result.raised
                THEN /\ Crash
                     /\ file = manifest
                     /\ log' = Append(log, Step("write_manifest", FALSE))
                     /\ UNCHANGED <<manifest, box>>
                ELSE IF stops(result)
                THEN /\ Exit(1)
                     /\ file = manifest
                     /\ log' = Append(log, Step("write_manifest", FALSE))
                     /\ box' = Append(box, box_result(FALSE))
                     /\ UNCHANGED manifest
                ELSE /\ manifest' = file
                     /\ log' = Append(log, Step("write_manifest", result.returncode = 0))
                     /\ pc' = "r_patch"
                     /\ UNCHANGED <<exitcode, crashed, box>>
    /\ UNCHANGED <<locals, pyproject, requirements>>
    /\ RegenEnv

\* Lines 406-412: patch_allow_uv() unless --no-allow-uv. A False return is
\* reported and the script goes on; an exception ends it.
RegenPatch ==
    /\ pc = "r_patch"
    /\ IF args.no_allow_uv
       THEN /\ pc' = "r_verify"
            /\ UNCHANGED <<manifest, log, exitcode, crashed>>
       ELSE LET r == patch_allow_uv(manifest)
            IN /\ manifest' = r.file
               /\ log' = Append(log, Step("patch_allow_uv", r.ret = "True"))
               /\ IF r.ret = "raise"
                  THEN Crash
                  ELSE pc' = "r_verify" /\ UNCHANGED <<exitcode, crashed>>
    /\ UNCHANGED <<locals, pyproject, requirements, lastRun, box>>
    /\ RegenEnv

\* Faulty variant of the verification: success whether the file is there or not.
regen_verify_always(file) == TRUE

\* Line 415: os.path.exists("manifest.json").
regen_verify(file) == exists(file)

\* Lines 414-426: the result box and the exit status.
RegenVerify ==
    /\ pc = "r_verify"
    /\ LET ok == regen_verify(manifest)
       IN /\ box' = Append(box, box_result(ok))
          /\ log' = Append(log, Step("verify", ok))
          /\ Exit(IF ok THEN 0 ELSE 1)
    /\ UNCHANGED <<locals, pyproject, requirements, manifest, lastRun>>
    /\ RegenEnv

NextRegenerate ==
    \/ RegenParseArgs
    \/ RegenPrereq
    \/ RegenTarget
    \/ RegenCommand
    \/ RegenContentType
    \/ RegenExport
    \/ RegenWriteManifest
    \/ RegenPatch
    \/ RegenVerify

SpecRegenerate == InitRegenerate /\ [][NextRegenerate]_vars

\* ---------------------------------------------------------------------------
\* Claims about the library functions
\* ---------------------------------------------------------------------------

\* Positions of the dots of v.
Dots(v) == {i \in 1..Len(v) : v[i] = "."}

\* v[a..b] is a non-empty run of digits.
DigitRun(v, a, b) == a <= b /\ \A n \in a..b : v[n] \in Digits

\* v, read character by character, starts with three non-empty runs of digits
\* separated by single dots, the third run ending at a dot or at the end of v.
ThreeDigitRuns(v) ==
    \E i \in Dots(v), j \in Dots(v) :
        /\ i < j
        /\ \A d \in Dots(v) : d >= i /\ (d > i => d >= j)
        /\ LET after == {d \in Dots(v) : d > j}
               k == IF after = {} THEN Len(v) + 1
                    ELSE CHOOSE d \in after : \A e \in after : d <= e
           IN DigitRun(v, 1, i - 1) /\ DigitRun(v, i + 1, j - 1) /\ DigitRun(v, j + 1, k - 1)

\* C9: is_exact_python_version(v) returns True exactly when v split on "." has
\* at least three parts and each of the first three parts is a run of digits
\* (str.isdigit: non-empty, digits only); for every other string, the empty
\* one included, it returns False. It always returns a boolean.
C9_ExactIffThreeDigitParts ==
    pc = "exact_done" =>
        /\ ret[1] \in BOOLEAN
        /\ ret[1] = ThreeDigitRuns(input)

\* C9 witness: a string with three digit parts was judged exact.
C9_Witness ==
    /\ pc = "exact_done"
    /\ input = <<"3", ".", "1", "3", ".", "1">>
    /\ ret = <<TRUE>>

\* The file a call of patch_allow_uv started from: the given file for the
\* first call, the file the previous call left for a later one.
Before(i) == IF i = 1 THEN input ELSE hist[i - 1]

\* The file has a python section as patch_allow_uv sees it: the document is an
\* object whose python entry is an object.
HasPythonSection(file) ==
    file.kind = "json" /\ file.doc.top = "object" /\ file.doc.python = "object"

\* The document is an object with no python entry (absent, or null).
NoPythonSection(file) ==
    file.kind = "json" /\ file.doc.top = "object" /\ file.doc.python \in {"absent", "null"}

C5_PatchFrame ==
    \A i \in 1..Len(ret) :
        /\ (HasPythonSection(Before(i)) /\ ret[i] = "True") =>
              /\ get_manifest_allow_uv(hist[i]) = "True"
              /\ hist[i].kind = "json"
              /\ hist[i].doc.allow_uv = "true"
              /\ hist[i].doc.package_manager = "object"
              /\ hist[i].doc.top = Before(i).doc.top
              /\ hist[i].doc.metadata = Before(i).doc.metadata
              /\ hist[i].doc.python = Before(i).doc.python
              /\ hist[i].doc.version = Before(i).doc.version
              /\ hist[i].doc.name = Before(i).doc.name
        /\ NoPythonSection(Before(i)) =>
              /\ ret[i] = "True"
              /\ ~log[i]
              /\ hist[i] = Before(i)

\* C5 witness: allow_uv was false beside another package_manager entry, the
\* patch returned True and the file was written.
C5_Witness ==
    /\ Len(ret) >= 1
    /\ HasPythonSection(input)
    /\ input.doc.allow_uv = "false"
    /\ input.doc.name = "pip"
    /\ input.doc.metadata = "present"
    /\ ret[1] = "True"
    /\ log[1]

\* C5 witness, second case: a manifest without python section was left alone.
C5_WitnessNoSection ==
    /\ Len(ret) >= 1
    /\ NoPythonSection(input)
    /\ ret[1] = "True"
    /\ ~log[1]

\* ---------------------------------------------------------------------------
\* Claims about diagnose_py.py
\* ---------------------------------------------------------------------------

\* The run was started without --help / -h and has ended.
DiagEnded == pc = "done" /\ ~args.help

\* The summary was reached.
AtSummary == log = <<"summary">>

\* An environment in which one of the sections appends an issue.
DiagIssueCondition ==
    \/ (get_python_version_file # None
            /\ ~is_exact_python_version(Val(get_python_version_file)))
    \/ "uv" \notin tools
    \/ ("rsconnect" \notin tools /\ "uvx" \notin tools)
    \/ (gitignore.agent_dir /\ ~gitignore.is_ignored)
    \/ ~exists(manifest)
    \/ ~requirements.exists

\* C1: diagnose_py run without --help exits 0 if and only if the summary is
\* reached with an empty issues list, and exits 1 otherwise; a run in which an
\* issue was appended, and a run in an environment that makes a section append
\* one, exits 1.
C1_ExitCodeIffNoIssues ==
    DiagEnded =>
        /\ exitcode \in {Some(0), Some(1)}
        /\ exitcode = Some(0) <=> (AtSummary /\ issues = <<>>)
        /\ issues # <<>> => exitcode = Some(1)
        /\ DiagIssueCondition => exitcode = Some(1)

\* C1 witness: the summary was reached with two issues and the exit code is 1.
C1_Witness ==
    /\ DiagEnded
    /\ AtSummary
    /\ issues = <<"uv_missing", "gitignore">>
    /\ exitcode = Some(1)

\* C1, the clean case: the summary was reached without issues, exit code 0.
C1_WitnessClean ==
    /\ DiagEnded
    /\ AtSummary
    /\ issues = <<>>
    /\ exitcode = Some(0)

\* The manifest carries a Python version: it parses, its python section is an
\* object and python.version is a non-empty string.
CarriesVersion(file) ==
    /\ file.kind = "json"
    /\ file.doc.python = "object"
    /\ truthy(file.doc.version)

ManifestVersion == Val(manifest.doc.version)

\* The manifest section of diagnose_py has run to its end.
DiagManifestSectionDone ==
    \/ pc \in {"d_requirements", "d_pyproject", "d_summary"}
    \/ (pc = "done" /\ AtSummary)

\* The first two dot-separated components of the two versions differ.
MajorMinorDiffer(m, l) == first_two(split(m)) # first_two(split(l))

\* C6: in diagnose_py, with M the (non-empty) Python version of manifest.json
\* and L the local version, once the manifest section has run: if the first
\* two components of M and L differ there is exactly one "Python version
\* mismatch" issue and no patch issue; otherwise, if M and L differ as strings,
\* exactly one "Python patch mismatch" issue and no version issue; if M = L,
\* neither. Any difference between M and L makes the run exit 1.
C6_DiagnoseVersionCheck ==
    CarriesVersion(manifest) =>
        LET M == ManifestVersion
            L == get_local_python_version
            nv == count(issues, "version_mismatch")
            np == count(issues, "patch_mismatch")
        IN /\ DiagManifestSectionDone =>
                /\ MajorMinorDiffer(M, L) => (nv = 1 /\ np = 0)
                /\ (~MajorMinorDiffer(M, L) /\ M # L) => (nv = 0 /\ np = 1)
                /\ M = L => (nv = 0 /\ np = 0)
           /\ (DiagEnded /\ M # L) => exitcode = Some(1)

\* C6 witness: manifest 3.12.7 against local 3.12.1, a patch mismatch as the
\* only issue, and the run has exited 1.
C6_Witness ==
    /\ DiagEnded
    /\ AtSummary
    /\ CarriesVersion(manifest)
    /\ ManifestVersion = v3_12_7
    /\ get_local_python_version = v3_12_1
    /\ issues = <<"patch_mismatch">>
    /\ exitcode = Some(1)

\* ---------------------------------------------------------------------------
\* Claims about pre_deploy_check_py.py
\* ---------------------------------------------------------------------------

\* One of the checks 1 to 5 fails in this environment.
Check1to5Fail ==
    \/ ~pyproject.exists
    \/ ~exists(manifest)
    \/ ~requirements.exists
    \/ "uv" \notin tools
    \/ ("rsconnect" \notin tools /\ "uvx" \notin tools)

\* C2 as stated: passed is True exactly when the issues list is empty, at
\* every point of the run; the script exits 0 if and only if no issue was
\* found, and exits 1 exactly when one of the checks 1 to 5 failed.
C2_Original ==
    /\ passed <=> issues = <<>>
    /\ pc = "done" =>
          /\ exitcode = Some(0) <=> issues = <<>>
          /\ exitcode = Some(1) <=> Check1to5Fail

\* C2 restricted to the runs that reach the summary (no exception in check 7
\* or check 9): there the exit code is decided by the checks 1 to 5 alone,
\* whatever the warnings are.
C2_OnRunsReachingSummary ==
    /\ passed <=> issues = <<>>
    /\ (pc = "done" /\ ~crashed) =>
          /\ exitcode = Some(0) <=> issues = <<>>
          /\ exitcode = Some(1) <=> Check1to5Fail
          /\ exitcode \in {Some(0), Some(1)}

\* C2, the failing run: every check 1 to 5 passed, no issue was recorded, and
\* the process has exited 1 on an uncaught exception.
C2_CrashState ==
    /\ pc = "done"
    /\ crashed
    /\ ~Check1to5Fail
    /\ issues = <<>>
    /\ passed
    /\ exitcode = Some(1)

\* The report the last check printed.
LastReport == log[Len(log)].report

\* C7: check 7 of pre_deploy_check_py never fails on a version difference.
\* With M the (non-empty) manifest version and L the local version, the step
\* leaves passed and the issues as they were; equal strings are reported as an
\* exact match with no warning; versions that agree on major.minor but differ
\* pass with no warning; versions that differ in major.minor add exactly one
\* warning.
C7_Check7NeverFails ==
    [][(pc = "p_check7" /\ pc' # "p_check7" /\ CarriesVersion(manifest)) =>
          LET M == ManifestVersion
              L == get_local_python_version
          IN /\ pc' = "p_check8"
             /\ passed' = passed
             /\ issues' = issues
             /\ M = L =>
                   (warnings' = warnings /\ LastReport' = "exact match")
             /\ (M # L /\ ~MajorMinorDiffer(M, L)) =>
                   (warnings' = warnings /\ LastReport' = "manifest differs in patch")
             /\ MajorMinorDiffer(M, L) =>
                   (warnings' = Append(warnings, "version_mismatch")
                       /\ LastReport' = "Local vs manifest")
      ]_vars

\* C7 witness: check 7 has just compared manifest 3.13.1 with local 3.12.1,
\* every earlier check passed, and the run still counts as passed with one
\* version warning.
C7_Witness ==
    /\ pc = "p_check8"
    /\ CarriesVersion(manifest)
    /\ ManifestVersion = v3_13_1
    /\ get_local_python_version = v3_12_1
    /\ passed
    /\ issues = <<>>
    /\ count(warnings, "version_mismatch") = 1
    /\ LastReport = "Local vs manifest"

\* ---------------------------------------------------------------------------
\* Claims about regenerate_manifest_py.py and run_command
\* ---------------------------------------------------------------------------

\* Positions of the log at which the named step stands.
At(name) == {i \in 1..Len(log) : log[i].step = name}

Ran(name) == At(name) # {}

\* The named step ran and succeeded before position i of the log.
OkBefore(name, i) == \E j \in At(name) : j < i /\ log[j].ok

\* The run ended with the verification finding manifest.json after a
\* write-manifest that returned 0.
VerifiedAfterWrite ==
    /\ log # <<>>
    /\ log[Len(log)] = Step("verify", TRUE)
    /\ OkBefore("write_manifest", Len(log))
    /\ lastRun = run_command(0)
    /\ exists(manifest)

\* .python-version is not exact and names another major.minor than the interpreter.
VersionConflict ==
    /\ get_python_version_file # None
    /\ ~is_exact_python_version(Val(get_python_version_file))
    /\ first_two(split(Val(get_python_version_file))) # first_two(split(interp))

\* An environment or an outcome the script answers with exit 1.
RegenFailure ==
    \/ ("rsconnect" \notin tools /\ "uvx" \notin tools)
    \/ VersionConflict
    \/ (args.type = None /\ detected = None)
    \/ (~args.no_uv_export /\ "uv" \notin tools)
    \/ (args.no_uv_export /\ ~requirements.exists)
    \/ (lastRun.ran /\ lastRun.returncode # 0)
    \/ ~exists(manifest)

\* C3 as stated: regenerate_manifest_py exits 0 only if write-manifest returned
\* 0 and manifest.json exists at the final verification; every other
\* terminating path exits 1.
C3_Original ==
    pc = "done" =>
        /\ exitcode = Some(0) => VerifiedAfterWrite
        /\ ~VerifiedAfterWrite => exitcode = Some(1)

\* C3 amended: a run whose command line argparse accepts (no --help, no
\* rejected option) exits 0 exactly when write-manifest returned 0 and the
\* final verification found manifest.json; every other end of such a run,
\* each listed failure included, is exit 1.
C3_ExitZeroOnlyAfterVerifiedWrite ==
    (pc = "done" /\ args.kind = "ok") =>
        /\ exitcode \in {Some(0), Some(1)}
        /\ exitcode = Some(0) <=> VerifiedAfterWrite
        /\ RegenFailure => exitcode = Some(1)

\* C3 witness: write-manifest returned 0 but left no manifest.json; the
\* verification ran and the exit code is 1.
C3_Witness ==
    /\ pc = "done"
    /\ args.kind = "ok"
    /\ Ran("verify")
    /\ OkBefore("write_manifest", Len(log))
    /\ ~exists(manifest)
    /\ exitcode = Some(1)

\* C3, the successful run: exit 0 after a verified write.
C3_WitnessSuccess ==
    /\ pc = "done"
    /\ args.kind = "ok"
    /\ VerifiedAfterWrite
    /\ exitcode = Some(0)

\* The order of the steps, common to the claim C8 and its amendment: every
\* step runs at most once; the requirements step comes after the content type
\* is determined; write-manifest is invoked after a successful uv export
\* unless the export is skipped; the patch comes after a write-manifest that
\* returned 0; the verification is the last step of the run.
StepOrder ==
    /\ \A i \in 1..Len(log), j \in 1..Len(log) : log[i].step = log[j].step => i = j
    /\ \A i \in At("uv_on_path") \cup At("pyproject") \cup At("uv_export")
                 \cup At("requirements_exist") :
          OkBefore("content_type", i)
    /\ \A i \in At("uv_export") : ~args.no_uv_export
    /\ \A i \in At("write_manifest") :
          /\ OkBefore("content_type", i)
          /\ IF args.no_uv_export
             THEN OkBefore("requirements_exist", i)
             ELSE OkBefore("uv_export", i)
    /\ \A i \in At("patch_allow_uv") :
          OkBefore("write_manifest", i) /\ ~args.no_allow_uv
    /\ \A i \in At("verify") :
          i = Len(log) /\ pc = "done" /\ OkBefore("write_manifest", i)

\* C8 as stated: the fixed order, and no later step runs after an earlier
\* step has failed.
C8_Original ==
    /\ StepOrder
    /\ \A i \in 1..Len(log) : ~log[i].ok => i = Len(log)

\* C8 amended: the fixed order, and no later step runs after an earlier step
\* has failed, except that the final existence check still runs after
\* patch_allow_uv has returned False.
C8_OrderedSteps ==
    /\ StepOrder
    /\ \A i \in 1..Len(log) :
          ~log[i].ok =>
              \/ i = Len(log)
              \/ /\ log[i].step = "patch_allow_uv"
                 /\ i + 1 = Len(log)
                 /\ log[i + 1].step = "verify"

\* C8 witness: a run through every step: content type, uv export,
\* write-manifest, patch and verification, each successful, in this order.
C8_Witness ==
    /\ pc = "done"
    /\ \E a \in At("content_type"), b \in At("uv_export"), c \in At("write_manifest"),
          d \in At("patch_allow_uv"), e \in At("verify") :
          a < b /\ b < c /\ c < d /\ d < e
    /\ \A i \in 1..Len(log) : log[i].ok
    /\ exitcode = Some(0)

\* C8, the excepted case: the patch returned False, the verification ran
\* after it and the script exited 0.
C8_WitnessPatchFailed ==
    /\ pc = "done"
    /\ \E d \in At("patch_allow_uv") :
          d < Len(log) /\ ~log[d].ok /\ log[d + 1] = Step("verify", TRUE)
    /\ exitcode = Some(0)

\* C10 as stated: run_command raises CalledProcessError when the command
\* exits with a non-zero status and returns the result only when it exits 0.
C10_Original ==
    lastRun.ran => (lastRun.raised <=> lastRun.returncode # 0)

\* C10, the failing call: a command exited non-zero and run_command returned
\* its result; the script then took its own returncode branch and exited 1.
C10_ReturnedNonZero ==
    /\ lastRun.ran
    /\ lastRun.returncode # 0
    /\ ~lastRun.raised
    /\ pc = "done"
    /\ ~crashed
    /\ exitcode = Some(1)

\* ---------------------------------------------------------------------------
\* Claims about parse_manifest
\* ---------------------------------------------------------------------------

\* C11 as stated: whatever manifest.json is (missing, not valid JSON, any
\* valid JSON document), parse_manifest returns a dict or None, and None
\* exactly when the file is missing or is not valid JSON; the reader built on
\* it, parse_manifest_python_version, does not raise either.
C11_Original ==
    /\ Len(ret) >= 1 =>
          /\ ret[1] \in {"dict", "None"}
          /\ ret[1] = "None" <=> input.kind \in {"missing", "invalid"}
    /\ Len(ret) >= 2 => ret[2] # "raise"

\* C11 restricted to the documents that are JSON objects, and to missing and
\* unparsable files: there parse_manifest returns a dict or None as stated.
C11_OnObjectsAndErrors ==
    (Len(ret) >= 1 /\ (input.kind # "json" \/ input.doc.top = "object")) =>
        /\ ret[1] \in {"dict", "None"}
        /\ ret[1] = "None" <=> input.kind \in {"missing", "invalid"}

\* C11, the failing call: manifest.json holds a JSON array, parse_manifest
\* returned it (a list) and parse_manifest_python_version raised on it.
C11_ReturnedList ==
    /\ input.kind = "json"
    /\ input.doc.top = "array"
    /\ ret = <<"list", "raise">>

\* C11, the other failing call: manifest.json holds null, a valid JSON
\* document, and parse_manifest returned None.
C11_ReturnedNoneForNull ==
    /\ input.kind = "json"
    /\ input.doc.top = "null"
    /\ Len(ret) >= 1
    /\ ret[1] = "None"

\* ---------------------------------------------------------------------------
\* Claims about get_manifest_allow_uv and check 9
\* ---------------------------------------------------------------------------

\* python.package_manager of the manifest contains the key allow_uv.
HasAllowUvKey(file) == file.kind = "json" /\ file.doc.allow_uv # "absent"

\* The value the claim gives get_manifest_allow_uv: the stored value when the
\* key is there, None when the manifest is missing, unparsable or lacks it.
AllowUvAsClaimed(file) ==
    IF HasAllowUvKey(file)
    THEN (IF file.doc.allow_uv = "true" THEN "True" ELSE "False")
    ELSE "None"

\* What check 9 printed, once it has run.
Check9Reports == {log[i].report : i \in {j \in 1..Len(log) : log[j].check = 9}}

\* What check 9 makes of the manifest, per the claim.
Check9AsClaimed ==
    /\ "Enabled" \in Check9Reports =>
          (HasAllowUvKey(manifest) /\ manifest.doc.allow_uv = "true")
    /\ count(warnings, "allow_uv_false") > 0 =>
          (HasAllowUvKey(manifest) /\ manifest.doc.allow_uv = "false")
    /\ "Skipped (no manifest)" \in Check9Reports => ~exists(manifest)

\* C12 as stated: get_manifest_allow_uv returns the stored value when
\* python.package_manager contains allow_uv and None when the manifest is
\* missing, unparsable or lacks the key; check 9 reports Enabled only for an
\* explicit true, warns "allow_uv is false" only for an explicit false, and
\* reports "Skipped (no manifest)" only when manifest.json does not exist.
C12_Original ==
    /\ get_manifest_allow_uv(manifest) = AllowUvAsClaimed(manifest)
    /\ Check9AsClaimed

\* The manifest has a level that is not an object where the readers call
\* .get or test membership: the document itself, python, or package_manager.
NotAnObjectSomewhere(file) ==
    /\ file.kind = "json"
    /\ \/ file.doc.top = "array"
       \/ file.doc.python \in {"null", "string"}
       \/ file.doc.package_manager = "null"

\* C12 on every other manifest: the function is tri-state as stated and
\* check 9 reports as stated.
C12_OnObjectLevels ==
    /\ ~NotAnObjectSomewhere(manifest) =>
          get_manifest_allow_uv(manifest) = AllowUvAsClaimed(manifest)
    /\ Check9AsClaimed

\* C12, the failing run: python.package_manager is null, the key allow_uv is
\* lacking, and check 9 ended the run with an uncaught exception instead of
\* reporting "Not set".
C12_RaisedAtCheck9 ==
    /\ pc = "done"
    /\ crashed
    /\ manifest.doc.package_manager = "null"
    /\ Len(log) = 9
    /\ log[9].check = 8
    /\ Check9Reports = {}

\* ---------------------------------------------------------------------------
\* Claims about get_requirements_packages
\* ---------------------------------------------------------------------------

\* Positions of the characters of a line that are not whitespace.
NonBlank(line) == {i \in 1..Len(line) : line[i] \notin Whitespace}

FirstNonBlank(line) == CHOOSE i \in NonBlank(line) : \A j \in NonBlank(line) : i <= j

LastNonBlank(line) == CHOOSE i \in NonBlank(line) : \A j \in NonBlank(line) : j <= i

\* The line without the whitespace around it.
Stripped(line) ==
    IF NonBlank(line) = {} THEN <<>>
    ELSE SubSeq(line, FirstNonBlank(line), LastNonBlank(line))

\* The line, stripped, is not empty and starts with neither '#' nor '-'.
IsPackageLine(line) ==
    /\ NonBlank(line) # {}
    /\ line[FirstNonBlank(line)] \notin {"#", "-"}

\* Positions of the package lines of the file; none when the file is missing.
Kept(file) ==
    IF file.exists THEN {i \in 1..Len(file.lines) : IsPackageLine(file.lines[i])}
    ELSE {}

\* list is, in file order, the stripped package lines of the file.
IsPackagesOf(list, file) ==
    /\ Len(list) = Cardinality(Kept(file))
    /\ \A i \in Kept(file) :
          list[Cardinality({j \in Kept(file) : j <= i})] = Stripped(file.lines[i])

\* C13: get_requirements_packages returns, in file order, exactly the
\* whitespace-stripped lines that are non-empty and start with neither '#' nor
\* '-', the empty list when the file is missing; the package count diagnose_py
\* and pre_deploy_check_py print is the length of that list.
C13_PackagesAreStrippedKeptLines ==
    /\ pc = "packages_done" => IsPackagesOf(ret[1], requirements)
    /\ pkg_count # None => Val(pkg_count) = Cardinality(Kept(requirements))

\* C13, the case: pre_deploy_check_py has printed 2 for a file of five lines,
\* of which one is a comment, one blank and one an option.
C13_Witness ==
    /\ pc = "done"
    /\ box # <<>>
    /\ Len(requirements.lines) = 5
    /\ pkg_count = Some(2)

\* C13, the function on its own: an option line is dropped and the line
\* after it is returned without its leading blank.
C13_WitnessCall ==
    /\ pc = "packages_done"
    /\ requirements.lines = << <<"-", "a">>, <<" ", "a">> >>
    /\ ret = << << <<"a">> >> >>

\* C13, diagnose_py: the count printed for the same file.
C13_WitnessDiagnose ==
    /\ pc = "done"
    /\ log = <<"summary">>
    /\ pkg_count = Some(2)

\* ---------------------------------------------------------------------------
\* Claims about the target version and the rsconnect command
\* ---------------------------------------------------------------------------

\* Execution has reached the construction of the rsconnect command.
ReachedCommand == pc = "r_command" \/ Ran("command")

\* .python-version holds an exact version.
PvExact == pvfile # None /\ is_exact_python_version(Val(pvfile))

\* .python-version has the interpreter's major.minor.
PvSameMajorMinor == pvfile # None /\ major_minor(Val(pvfile)) = major_minor(interp)

\* .python-version exists and holds nothing but whitespace.
PvEmpty == pvfile # None /\ Val(pvfile) = <<>>

\* The target version is set, exact, and the interpreter's or the file's.
TargetIs(version) ==
    /\ target_python = Some(version)
    /\ is_exact_python_version(version)

\* C14 as stated: at the construction of the rsconnect command the target
\* version is exact; it is the content of .python-version when that is exact,
\* the interpreter's version when the file is absent or not exact with the
\* interpreter's major.minor; when the content is not exact and its
\* major.minor differs the script has exited 1 instead.
C14_Original ==
    /\ ReachedCommand =>
          /\ target_python # None /\ is_exact_python_version(Val(target_python))
          /\ PvExact => TargetIs(Val(pvfile))
          /\ (pvfile = None \/ (~PvExact /\ PvSameMajorMinor)) => TargetIs(interp)
    /\ (pvfile # None /\ ~PvExact /\ ~PvSameMajorMinor) =>
          /\ ~ReachedCommand
          /\ Ran("target_python") => (pc = "done" /\ exitcode = Some(1))

\* C14 with the empty file counted as absent: at the construction of the
\* rsconnect command the target version is exact; it is the content of
\* .python-version when that is exact, the interpreter's version when the
\* file is absent, empty, or not exact with the interpreter's major.minor;
\* when the content is not empty, not exact and its major.minor differs, the
\* script has exited 1 instead.
C14_ExactTargetAtCommand ==
    /\ ReachedCommand =>
          /\ target_python # None /\ is_exact_python_version(Val(target_python))
          /\ PvExact => TargetIs(Val(pvfile))
          /\ (pvfile = None \/ PvEmpty \/ (~PvExact /\ PvSameMajorMinor)) =>
                TargetIs(interp)
    /\ (pvfile # None /\ ~PvEmpty /\ ~PvExact /\ ~PvSameMajorMinor) =>
          /\ ~ReachedCommand
          /\ Ran("target_python") => (pc = "done" /\ exitcode = Some(1))

\* C14, the case: .python-version says 3.12, the interpreter is 3.12.1, and
\* the uvx command has been built with 3.12.1.
C14_Witness ==
    /\ Ran("command")
    /\ pvfile = Some(v3_12)
    /\ rsconnect_cmd = "uvx"
    /\ target_python = Some(v3_12_1)

\* C14, the conflict: .python-version says 3.13 and the script has exited 1
\* without building the command.
C14_WitnessConflict ==
    /\ pvfile = Some(v3_13)
    /\ log # <<>>
    /\ log[Len(log)] = Step("target_python", FALSE)
    /\ exitcode = Some(1)
    /\ rsconnect_cmd = "none"

\* C14, the empty file: the command is built with the interpreter's version.
C14_WitnessEmptyFile ==
    /\ Ran("command")
    /\ PvEmpty
    /\ target_python = Some(interp)

\* Neither rsconnect nor uvx is on PATH.
NeitherOnPath == "rsconnect" \notin tools /\ "uvx" \notin tools

\* No step writes a project file or runs a subprocess while neither tool is
\* on PATH.
NothingTouchedWithoutTools ==
    NeitherOnPath => UNCHANGED <<pyproject, requirements, manifest, lastRun>>

\* The command built: the uvx form when uvx is on PATH (so when both are),
\* the installed rsconnect only when uvx is absent.
CommandChoice ==
    /\ (Ran("command") /\ "uvx" \in tools) => rsconnect_cmd = "uvx"
    /\ rsconnect_cmd = "rsconnect" => "uvx" \notin tools
    /\ Ran("write_manifest") => rsconnect_cmd \in {"uvx", "rsconnect"}

\* C15 as stated: with neither rsconnect nor uvx on PATH the script exits 1,
\* no project file is created or modified and no subprocess runs; with both
\* on PATH write-manifest is run in the uvx form, and the plain rsconnect is
\* used only when uvx is absent.
C15_Original ==
    /\ []((NeitherOnPath /\ pc = "done") => exitcode = Some(1))
    /\ [](NeitherOnPath => ~lastRun.ran)
    /\ [][NothingTouchedWithoutTools]_vars
    /\ []CommandChoice

\* C15 for a command line argparse accepts: with neither rsconnect nor uvx on
\* PATH the script exits 1; on every command line no project file is created
\* or modified and no subprocess runs in that case; with both on PATH
\* write-manifest is run in the uvx form, and the plain rsconnect is used only
\* when uvx is absent.
C15_NoToolsNoEffects ==
    /\ []((NeitherOnPath /\ pc = "done" /\ args.kind = "ok") => exitcode = Some(1))
    /\ [](NeitherOnPath => ~lastRun.ran)
    /\ [][NothingTouchedWithoutTools]_vars
    /\ []CommandChoice

\* C15, the case: neither tool is on PATH and the run has ended at the
\* prerequisites with status 1, manifest.json as it was.
C15_Witness ==
    /\ NeitherOnPath
    /\ args.kind = "ok"
    /\ log = <<Step("prerequisites", FALSE)>>
    /\ exitcode = Some(1)
    /\ manifest = OldManifest
    /\ ~lastRun.ran

\* C15, both on PATH: write-manifest has run in the uvx form.
C15_WitnessBoth ==
    /\ {"rsconnect", "uvx"} \subseteq tools
    /\ Ran("write_manifest")
    /\ rsconnect_cmd = "uvx"

\* C15, --help with neither tool on PATH: the exit status is 0.
C15_WitnessHelp ==
    /\ NeitherOnPath
    /\ args.kind = "help"
    /\ exitcode = Some(0)

\* ---------------------------------------------------------------------------
\* Claims about --no-uv-export and pyproject.toml
\* ---------------------------------------------------------------------------

\* With --no-uv-export no step of the export has run and nothing it writes
\* has been written.
ExportSkipped ==
    /\ ~Ran("uv_on_path")
    /\ ~Ran("pyproject")
    /\ ~Ran("uv_export")
    /\ ~pyproject.generated
    /\ ~requirements.exported

\* With --no-uv-export and no requirements.txt the run does not get to
\* write-manifest, and ends with status 1.
StopsBeforeWriteManifest ==
    /\ ~Ran("write_manifest")
    /\ pc \notin {"r_write_manifest", "r_patch", "r_verify"}
    /\ pc = "done" => exitcode = Some(1)

\* C16: with --no-uv-export the script never runs uv export, never looks for
\* uv on PATH and never generates pyproject.toml; when requirements.txt does
\* not exist it exits 1 before write-manifest, and manifest.json is as it was.
C16_NoUvExport ==
    /\ [](args.no_uv_export => ExportSkipped)
    /\ [][args.no_uv_export => UNCHANGED <<pyproject, requirements>>]_vars
    /\ []((args.no_uv_export /\ ~requirements.exists) => StopsBeforeWriteManifest)
    /\ [][(args.no_uv_export /\ ~requirements.exists) => UNCHANGED manifest]_vars

\* C16, the case: --no-uv-export without requirements.txt, everything before
\* the export step went well, and the run has ended there with status 1.
C16_Witness ==
    /\ args.no_uv_export
    /\ ~requirements.exists
    /\ log # <<>>
    /\ log[Len(log)] = Step("requirements_exist", FALSE)
    /\ exitcode = Some(1)
    /\ manifest = OldManifest

\* C16, uv not needed: a run with --no-uv-export and no uv on PATH has
\* ended with status 0.
C16_WitnessWithoutUv ==
    /\ args.no_uv_export
    /\ "uv" \notin tools
    /\ ~pyproject.exists
    /\ exitcode = Some(0)

\* A step that changes pyproject.toml creates it: it was absent, the export
\* is not skipped, and uv is on PATH.
PyprojectOnlyCreated ==
    pyproject' # pyproject =>
        /\ ~pyproject.exists
        /\ ~args.no_uv_export
        /\ "uv" \in tools
        /\ pyproject' = [pyproject EXCEPT !.exists = TRUE, !.generated = TRUE]

\* C17: the script never overwrites an existing pyproject.toml; it writes the
\* file only when it is absent, the export is not skipped and uv is on PATH,
\* and in every other run the file stays as it was.
C17_PyprojectNeverOverwritten ==
    /\ [][PyprojectOnlyCreated]_vars
    /\ [](pyproject.generated => (~args.no_uv_export /\ "uv" \in tools))

\* C17, the case: pyproject.toml was absent and the script has generated it.
C17_Witness ==
    /\ pyproject.generated
    /\ Ran("pyproject")
    /\ Ran("uv_export")

\* C17, the existing file: the export has run and pyproject.toml is the file
\* that was there.
C17_WitnessKept ==
    /\ pyproject.exists
    /\ ~pyproject.generated
    /\ Ran("uv_export")
    /\ exitcode = Some(0)

\* ---------------------------------------------------------------------------
\* Claims about the order of the checks of pre_deploy_check_py
\* ---------------------------------------------------------------------------

\* The numbers of the checks performed so far, in order (0 is the gitignore
\* note before check 1).
ChecksRun == [i \in 1..Len(log) |-> log[i].check]

\* All nine checks ran, in order.
AllNineInOrder == ChecksRun = <<0, 1, 2, 3, 4, 5, 6, 7, 8, 9>>

\* The box was printed once, and says what the exit status says.
OneBoxMatchingExit ==
    /\ Len(box) = 1
    /\ box[1] = "READY TO DEPLOY" <=> exitcode = Some(0)
    /\ box[1] = "ISSUES FOUND" <=> exitcode = Some(1)

\* C18 as stated: every run performs the checks 1 to 9 in order whatever the
\* earlier checks found, then prints the result box exactly once and
\* terminates; the box says READY TO DEPLOY exactly when the exit code is 0
\* and ISSUES FOUND exactly when it is 1.
C18_Original ==
    /\ \A i \in 1..Len(log) : log[i].check = i - 1
    /\ pc # "done" => box = <<>>
    /\ pc = "done" => (AllNineInOrder /\ OneBoxMatchingExit)

\* C18 on the runs in which no check raises: the nine checks in order, then
\* one box that agrees with the exit status.
C18_OnRunsReachingSummary ==
    /\ \A i \in 1..Len(log) : log[i].check = i - 1
    /\ pc # "done" => box = <<>>
    /\ (pc = "done" /\ ~crashed) => (AllNineInOrder /\ OneBoxMatchingExit)

\* C18, the failing run: the process has ended with status 1 inside check 7;
\* checks 8 and 9 never ran and no box was printed.
C18_AbortedAtCheck7 ==
    /\ pc = "done"
    /\ exitcode = Some(1)
    /\ ChecksRun = <<0, 1, 2, 3, 4, 5, 6>>
    /\ box = <<>>

\* C18 where it holds: checks 1 to 3 failed, all nine ran, and the one box
\* says ISSUES FOUND.
C18_FailedChecksDoNotAbort ==
    /\ pc = "done"
    /\ ~pyproject.exists /\ ~exists(manifest) /\ ~requirements.exists
    /\ AllNineInOrder
    /\ box = <<"ISSUES FOUND">>
    /\ exitcode = Some(1)

====
